---- MODULE Spec2Model ----
(***************************************************************************)
(* Model of package machine (wait.go): WaitForStartOrStop, the retry loop  *)
(* around flapsClient.Wait, and WaitForAnyMachineState, the race of one    *)
(* watcher goroutine per candidate state resolved by a polling             *)
(* coordinator under a mutex.                                              *)
(***************************************************************************)
EXTENDS Integers, Sequences, FiniteSets, TLC

VARIABLES
    \* ---- WaitForAnyMachineState ----
    possibleStates,   \* argument: the candidate states, in the caller's order
    sl,               \* argument: TRUE iff a statuslogger.StatusLine is supplied
    launched,         \* number of goroutines the range loop has started
    wpc,              \* position of each watcher goroutine
    watchErr,         \* each goroutine's local err (result of flapsClient.Wait)
    mutex,            \* holder of the sync.Mutex: Free, Coordinator, or a watcher
    successfulState,  \* shared: the winner, "" while none
    waitErr,          \* shared: the retained error, Nil while none
    numCompleted,     \* shared: number of watchers that have finished
    cpc,              \* position of the coordinator
    ret,              \* what WaitForAnyMachineState returned
    logged,           \* states for which sl.LogStatus was called, in order
    queries,          \* number of flapsClient.Wait calls issued by watchers
    lockOrder,        \* history: watchers in the order they acquired the mutex
    raceCtx,          \* the race's shared context: "live" (ctx.Err() is nil) or
                      \* "done" (canceled or past its deadline)
    raceCtxAtReturn,  \* history: raceCtx when the coordinator returned
    twin              \* the shared fields and result of the same run with the
                      \* reporter flipped (supplied <-> omitted)

anyVars == <<possibleStates, sl, launched, wpc, watchErr, mutex, successfulState,
             waitErr, numCompleted, cpc, ret, logged, queries, lockOrder, raceCtx,
             raceCtxAtReturn, twin>>

VARIABLES
    \* ---- WaitForStartOrStop ----
    action,           \* argument: the action to wait for
    machine,          \* argument: [ID, Restart], Restart the policy of
                      \* machine.Config.Restart or "nil" when that pointer is nil
    timeout,          \* argument: the overall timeout, in seconds
    ctx,              \* waitCtx.Err(): "live" (nil), "canceled", "expired"
    fpc,              \* position of WaitForStartOrStop
    waitOnAction,     \* the state passed to flapsClient.Wait
    err,              \* the error the last flapsClient.Wait returned
    b,                \* the backoff's attempt counter
    result,           \* what WaitForStartOrStop returned
    calls,            \* number of flapsClient.Wait calls issued
    slept,            \* durations (ms) handed to time.Sleep, in order
    ctxAtReturn,      \* history: ctx when the last flapsClient.Wait returned
    callsAtReturn,    \* history: calls when the last flapsClient.Wait returned
    sleptAtReturn,    \* history: Len(slept) when the last flapsClient.Wait returned
    lateCalls,        \* history: flapsClient.Wait calls issued with ctx done
    lateWakes         \* history: time.Sleep calls that returned with ctx done

waitVars == <<action, machine, timeout, ctx, fpc, waitOnAction, err, b, result,
              calls, slept, ctxAtReturn, callsAtReturn, sleptAtReturn, lateCalls,
              lateWakes>>

vars == <<anyVars, waitVars>>

-----------------------------------------------------------------------------
(* Bounds *)

\* largest number of candidate states in one race
MaxWatchers == 2

\* largest number of flapsClient.Wait calls one WaitForStartOrStop issues while
\* its context is live (the deadline passes after that many at the latest)
MaxCalls == 5

\* largest number of flapsClient.Wait calls issued after the context is done
MaxLateCalls == 2

-----------------------------------------------------------------------------
(* Values *)

\* machine states a caller may wait on (non-empty labels)
States == {"started", "stopped"}

\* An error value: the text class of err.Error() and, for a *flaps.FlapsError,
\* its ResponseStatusCode (0: not a FlapsError).
ErrTexts == {"reach", "deadline", "other"}
ErrCodes == {0, 400, 500}
Errs == [text : ErrTexts, code : ErrCodes]

\* the nil error
Nil == [text |-> "nil", code |-> 0]

\* errors a watcher's query returns in the race model
WatchErrs == {[text |-> "deadline", code |-> 0], [text |-> "other", code |-> 500]}

Free == 0
Coordinator == -1

N == Len(possibleStates)
Watchers == 1..N

NoRet == [returned |-> FALSE, state |-> "", err |-> Nil]

-----------------------------------------------------------------------------
(* WaitForStartOrStop *)

Actions == {"start", "stop", "restart"}
MachineIDs == {"m1", "m2"}
RestartPolicies == {"nil", "no", "always"}
Timeouts == {5, 300}

\* fly.MachineRestartPolicyNo
MachineRestartPolicyNo == "no"

\* backoff.Backoff{Min: 500ms, Max: 2s, Factor: 2, Jitter: false}, in ms
BackoffMin == 500
BackoffMax == 2000
BackoffFactor == 2

\* http.StatusBadRequest
StatusBadRequest == 400

RECURSIVE Pow(_, _)
Pow(x, n) == IF n = 0 THEN 1 ELSE x * Pow(x, n - 1)

\* ForAttempt without the cap at Max.
ForAttemptNoCap(attempt) == BackoffMin * Pow(BackoffFactor, attempt)

\* b.ForAttempt(attempt): Min * Factor^attempt, kept within [Min, Max]
ForAttempt(attempt) ==
    LET dur == BackoffMin * Pow(BackoffFactor, attempt)
    IN IF dur < BackoffMin THEN BackoffMin
       ELSE IF dur > BackoffMax THEN BackoffMax
       ELSE dur

\* The errors WaitForStartOrStop returns, as records of one shape.
Outcome(kind, e, id, to, st, pol) ==
    [kind |-> kind, err |-> e, machineID |-> id, timeout |-> to,
     desiredState |-> st, policy |-> pol]

NoResult == Outcome("none", Nil, "", 0, "", "")
\* return nil
Success == Outcome("nil", Nil, "", 0, "", "")
\* the package variable invalidAction
InvalidAction == Outcome("invalidAction", Nil, "", 0, "", "")
\* return err
Raw(e) == Outcome("raw", e, "", 0, "", "")
\* WaitTimeoutErr{machineID, timeout, desiredState}
WaitTimeoutErr(id, to, st) == Outcome("WaitTimeoutErr", Nil, id, to, st, "")
\* fmt.Errorf("machine failed to reach desired start state, and restart policy
\* was set to %s restart", policy)
RestartPolicyErr(pol) == Outcome("restartPolicy", Nil, "", 0, "", pol)
\* fmt.Errorf("failed waiting for machine: %w", err)
Wrapped(e) == Outcome("wrapped", e, "", 0, "", "")

\* strings.Contains(err.Error(), "machine failed to reach desired state")
FailedToReach(e) == e.text = "reach"

\* IsBadRequest taking every client or server error status as non-retryable.
IsBadRequestAnyStatus(e) == e.code >= StatusBadRequest

\* errors.As(err, &flapsErr) && flapsErr.ResponseStatusCode == http.StatusBadRequest
IsBadRequest(e) == e.code = StatusBadRequest

\* WaitOnAction with the default branch waiting on "started".
WaitOnActionLenient(a) ==
    IF a = "stop" THEN "stopped" ELSE "started"

\* the state the action waits on; "" for an action the switch rejects
WaitOnAction(a) ==
    IF a = "start" THEN "started"
    ELSE IF a = "stop" THEN "stopped"
    ELSE ""

WaitStart ==
    /\ fpc = "switch"
    /\ waitOnAction = ""
    /\ err = Nil
    /\ b = 0
    /\ result = NoResult
    /\ calls = 0
    /\ slept = <<>>
    /\ ctxAtReturn = "live"
    /\ callsAtReturn = 0
    /\ sleptAtReturn = 0
    /\ lateCalls = 0
    /\ lateWakes = 0

\* the retry loop's variables while only the race runs
WaitIdle ==
    /\ action = "start"
    /\ machine = [ID |-> "m1", Restart |-> "nil"]
    /\ timeout = 5
    /\ ctx = "live"
    /\ WaitStart

\* the parent context is canceled
CtxCancel ==
    /\ fpc # "done"
    /\ ctx = "live"
    /\ ctx' = "canceled"
    /\ UNCHANGED <<action, machine, timeout, fpc, waitOnAction, err, b, result,
                   calls, slept, ctxAtReturn, callsAtReturn, sleptAtReturn,
                   lateCalls, lateWakes>>
    /\ UNCHANGED anyVars

\* the deadline of context.WithTimeout(ctx, timeout) passes
CtxExpire ==
    /\ fpc # "done"
    /\ ctx = "live"
    /\ ctx' = "expired"
    /\ UNCHANGED <<action, machine, timeout, fpc, waitOnAction, err, b, result,
                   calls, slept, ctxAtReturn, callsAtReturn, sleptAtReturn,
                   lateCalls, lateWakes>>
    /\ UNCHANGED anyVars

\* switch action: "start" and "stop" set waitOnAction
SwitchValid ==
    /\ fpc = "switch"
    /\ WaitOnAction(action) # ""
    /\ waitOnAction' = WaitOnAction(action)
    /\ fpc' = "call"
    /\ UNCHANGED <<action, machine, timeout, ctx, err, b, result, calls, slept,
                   ctxAtReturn, callsAtReturn, sleptAtReturn, lateCalls, lateWakes>>
    /\ UNCHANGED anyVars

\* switch action: default: return invalidAction
SwitchInvalid ==
    /\ fpc = "switch"
    /\ WaitOnAction(action) = ""
    /\ result' = InvalidAction
    /\ fpc' = "done"
    /\ UNCHANGED <<action, machine, timeout, ctx, waitOnAction, err, b, calls,
                   slept, ctxAtReturn, callsAtReturn, sleptAtReturn, lateCalls,
                   lateWakes>>
    /\ UNCHANGED anyVars

\* flapsClient.Wait(waitCtx, machine, waitOnAction, 60*time.Second) is called
Call ==
    /\ fpc = "call"
    /\ calls < MaxCalls \/ (ctx # "live" /\ lateCalls < MaxLateCalls)
    /\ calls' = calls + 1
    /\ lateCalls' = IF ctx # "live" THEN lateCalls + 1 ELSE lateCalls
    /\ fpc' = "wait"
    /\ UNCHANGED <<action, machine, timeout, ctx, waitOnAction, err, b, result,
                   slept, ctxAtReturn, callsAtReturn, sleptAtReturn, lateWakes>>
    /\ UNCHANGED anyVars

\* flapsClient.Wait returns e; if err == nil { return nil }
WaitReturn(e) ==
    /\ fpc = "wait"
    /\ err' = e
    /\ ctxAtReturn' = ctx
    /\ callsAtReturn' = calls
    /\ sleptAtReturn' = Len(slept)
    /\ IF e = Nil
       THEN /\ result' = Success
            /\ fpc' = "done"
       ELSE /\ result' = result
            /\ fpc' = "isCanceled"
    /\ UNCHANGED <<action, machine, timeout, ctx, waitOnAction, b, calls, slept,
                   lateCalls, lateWakes>>
    /\ UNCHANGED anyVars

\* CaseCanceled with the restart-policy test moved before the context tests.
CaseCanceledAfterContent ==
    /\ fpc = "isCanceled"
    /\ IF FailedToReach(err) /\ machine.Restart = MachineRestartPolicyNo
       THEN /\ result' = RestartPolicyErr(machine.Restart)
            /\ fpc' = "done"
       ELSE IF ctx = "canceled"
       THEN /\ result' = Raw(err)
            /\ fpc' = "done"
       ELSE /\ result' = result
            /\ fpc' = "isExpired"
    /\ UNCHANGED <<action, machine, timeout, ctx, waitOnAction, err, b, calls,
                   slept, ctxAtReturn, callsAtReturn, sleptAtReturn, lateCalls,
                   lateWakes>>
    /\ UNCHANGED anyVars

\* CaseCanceled without the case: a canceled context falls through.
CaseCanceledMissing ==
    /\ fpc = "isCanceled"
    /\ result' = result
    /\ fpc' = "isExpired"
    /\ UNCHANGED <<action, machine, timeout, ctx, waitOnAction, err, b, calls,
                   slept, ctxAtReturn, callsAtReturn, sleptAtReturn, lateCalls,
                   lateWakes>>
    /\ UNCHANGED anyVars

\* case errors.Is(waitCtx.Err(), context.Canceled): return err
CaseCanceled ==
    /\ fpc = "isCanceled"
    /\ IF ctx = "canceled"
       THEN /\ result' = Raw(err)
            /\ fpc' = "done"
       ELSE /\ result' = result
            /\ fpc' = "isExpired"
    /\ UNCHANGED <<action, machine, timeout, ctx, waitOnAction, err, b, calls,
                   slept, ctxAtReturn, callsAtReturn, sleptAtReturn, lateCalls,
                   lateWakes>>
    /\ UNCHANGED anyVars

\* CaseDeadlineExceeded testing for context.Canceled again: an expired context
\* falls through to the default branch.
CaseDeadlineExceededWrongErr ==
    /\ fpc = "isExpired"
    /\ IF ctx = "canceled"
       THEN /\ result' = WaitTimeoutErr(machine.ID, timeout, waitOnAction)
            /\ fpc' = "done"
       ELSE /\ result' = result
            /\ fpc' = "default"
    /\ UNCHANGED <<action, machine, timeout, ctx, waitOnAction, err, b, calls,
                   slept, ctxAtReturn, callsAtReturn, sleptAtReturn, lateCalls,
                   lateWakes>>
    /\ UNCHANGED anyVars

\* case errors.Is(waitCtx.Err(), context.DeadlineExceeded): return WaitTimeoutErr
CaseDeadlineExceeded ==
    /\ fpc = "isExpired"
    /\ IF ctx = "expired"
       THEN /\ result' = WaitTimeoutErr(machine.ID, timeout, waitOnAction)
            /\ fpc' = "done"
       ELSE /\ result' = result
            /\ fpc' = "default"
    /\ UNCHANGED <<action, machine, timeout, ctx, waitOnAction, err, b, calls,
                   slept, ctxAtReturn, callsAtReturn, sleptAtReturn, lateCalls,
                   lateWakes>>
    /\ UNCHANGED anyVars

\* IsRestartPolicyFailure with the policy comparison inverted.
IsRestartPolicyFailureInverted(e, m) ==
    /\ FailedToReach(e)
    /\ m.Restart # "nil"
    /\ m.Restart # MachineRestartPolicyNo

\* line 62: the machine failed to reach the state and its restart policy is "no"
IsRestartPolicyFailure(e, m) ==
    /\ FailedToReach(e)
    /\ m.Restart # "nil"
    /\ m.Restart = MachineRestartPolicyNo

\* default: the restart-policy failure is returned
DefaultRestartPolicy ==
    /\ fpc = "default"
    /\ IsRestartPolicyFailure(err, machine)
    /\ result' = RestartPolicyErr(machine.Restart)
    /\ fpc' = "done"
    /\ UNCHANGED <<action, machine, timeout, ctx, waitOnAction, err, b, calls,
                   slept, ctxAtReturn, callsAtReturn, sleptAtReturn, lateCalls,
                   lateWakes>>
    /\ UNCHANGED anyVars

\* default: an HTTP 400 FlapsError is returned wrapped
DefaultBadRequest ==
    /\ fpc = "default"
    /\ ~IsRestartPolicyFailure(err, machine)
    /\ IsBadRequest(err)
    /\ result' = Wrapped(err)
    /\ fpc' = "done"
    /\ UNCHANGED <<action, machine, timeout, ctx, waitOnAction, err, b, calls,
                   slept, ctxAtReturn, callsAtReturn, sleptAtReturn, lateCalls,
                   lateWakes>>
    /\ UNCHANGED anyVars

\* default: time.Sleep(b.Duration()) is called; Duration advances the attempt
DefaultSleep ==
    /\ fpc = "default"
    /\ ~IsRestartPolicyFailure(err, machine)
    /\ ~IsBadRequest(err)
    /\ slept' = Append(slept, ForAttempt(b))
    /\ b' = b + 1
    /\ fpc' = "sleep"
    /\ UNCHANGED <<action, machine, timeout, ctx, waitOnAction, err, result, calls,
                   ctxAtReturn, callsAtReturn, sleptAtReturn, lateCalls, lateWakes>>
    /\ UNCHANGED anyVars

\* time.Sleep returns; the loop starts over
SleepReturn ==
    /\ fpc = "sleep"
    /\ lateWakes' = IF ctx # "live" THEN lateWakes + 1 ELSE lateWakes
    /\ fpc' = "call"
    /\ UNCHANGED <<action, machine, timeout, ctx, waitOnAction, err, b, result,
                   calls, slept, ctxAtReturn, callsAtReturn, sleptAtReturn,
                   lateCalls>>
    /\ UNCHANGED anyVars

NextWait ==
    \/ CtxCancel
    \/ CtxExpire
    \/ SwitchValid
    \/ SwitchInvalid
    \/ Call
    \/ \E e \in Errs \cup {Nil} : WaitReturn(e)
    \/ CaseCanceled
    \/ CaseDeadlineExceeded
    \/ DefaultRestartPolicy
    \/ DefaultBadRequest
    \/ DefaultSleep
    \/ SleepReturn

\* a step of WaitForStartOrStop itself, flapsClient.Wait returning included
WaitStep ==
    \/ SwitchValid
    \/ SwitchInvalid
    \/ Call
    \/ \E e \in Errs \cup {Nil} : WaitReturn(e)
    \/ CaseCanceled
    \/ CaseDeadlineExceeded
    \/ DefaultRestartPolicy
    \/ DefaultBadRequest
    \/ DefaultSleep
    \/ SleepReturn

\* Scheduling: the function keeps running, each flapsClient.Wait returns (it is
\* bounded by its 60 s per-attempt timeout), each sleep ends, and the deadline
\* of waitCtx passes unless the context was canceled before.
WaitFairness ==
    /\ WF_vars(WaitStep)
    /\ WF_vars(CtxExpire)

-----------------------------------------------------------------------------
(* WaitForAnyMachineState *)

\* WatcherUpdate without recording a failing watcher's error.
WatcherUpdateDropsErr(ss, we, lg, state, e, reporter) ==
    IF ss # ""
    THEN [successfulState |-> ss, waitErr |-> we, logged |-> lg]
    ELSE [successfulState |-> IF e # Nil THEN ss ELSE state,
          waitErr         |-> we,
          logged          |-> IF reporter THEN Append(lg, state) ELSE lg]

\* WatcherUpdate without the early return taken when a winner exists.
WatcherUpdateNoGuard(ss, we, lg, state, e, reporter) ==
    [successfulState |-> IF e # Nil THEN ss ELSE state,
     waitErr         |-> IF e # Nil THEN e ELSE we,
     logged          |-> IF reporter THEN Append(lg, state) ELSE lg]

\* WatcherUpdate returning right after the reporter's call.
WatcherUpdateReporterReturns(ss, we, lg, state, e, reporter) ==
    IF ss # ""
    THEN [successfulState |-> ss, waitErr |-> we, logged |-> lg]
    ELSE IF reporter
    THEN [successfulState |-> ss, waitErr |-> we, logged |-> Append(lg, state)]
    ELSE [successfulState |-> IF e # Nil THEN ss ELSE state,
          waitErr         |-> IF e # Nil THEN e ELSE we,
          logged          |-> lg]

\* WatcherUpdate keeping the first error instead of the last.
WatcherUpdateKeepsFirstErr(ss, we, lg, state, e, reporter) ==
    IF ss # ""
    THEN [successfulState |-> ss, waitErr |-> we, logged |-> lg]
    ELSE [successfulState |-> IF e # Nil THEN ss ELSE state,
          waitErr         |-> IF e # Nil /\ we = Nil THEN e ELSE we,
          logged          |-> IF reporter THEN Append(lg, state) ELSE lg]

\* WatcherUpdate honouring a priority: a success for "started" replaces a winner
\* recorded before.
WatcherUpdatePrefersStarted(ss, we, lg, state, e, reporter) ==
    IF ss # "" /\ ~(e = Nil /\ state = "started")
    THEN [successfulState |-> ss, waitErr |-> we, logged |-> lg]
    ELSE [successfulState |-> IF e # Nil THEN ss ELSE state,
          waitErr         |-> IF e # Nil THEN e ELSE we,
          logged          |-> IF reporter THEN Append(lg, state) ELSE lg]

\* The guarded part of the goroutine (after mutex.Lock, before the deferred
\* function): given the shared fields, the goroutine's state and err, and
\* whether a reporter is supplied, the new shared fields and log.
WatcherUpdate(ss, we, lg, state, e, reporter) ==
    IF ss # ""
    THEN [successfulState |-> ss, waitErr |-> we, logged |-> lg]
    ELSE [successfulState |-> IF e # Nil THEN ss ELSE state,
          waitErr         |-> IF e # Nil THEN e ELSE we,
          logged          |-> IF reporter THEN Append(lg, state) ELSE lg]

\* CoordReady giving up once the shared context is done.
CoordReadyOrCtxDone(ss, nc) == ss # "" \/ nc = N \/ raceCtx # "live"

\* CoordReady waiting for every watcher even when a winner exists.
CoordReadyAllCompleted(ss, nc) == nc = N

\* CoordReady counting completions only once a watcher has completed.
CoordReadyNeedsCompletion(ss, nc) == ss # "" \/ (nc = N /\ nc > 0)

\* The coordinator's loop condition.
CoordReady(ss, nc) == ss # "" \/ nc = N

InitTwin == [successfulState |-> "", waitErr |-> Nil, numCompleted |-> 0,
             ret |-> NoRet]

InitAny ==
    /\ possibleStates \in UNION {[1..n -> States] : n \in 0..MaxWatchers}
    /\ sl \in BOOLEAN
    /\ launched = 0
    /\ wpc = [i \in 1..Len(possibleStates) |-> "unborn"]
    /\ watchErr = [i \in 1..Len(possibleStates) |-> Nil]
    /\ mutex = Free
    /\ successfulState = ""
    /\ waitErr = Nil
    /\ numCompleted = 0
    /\ cpc = "spawn"
    /\ ret = NoRet
    /\ logged = <<>>
    /\ queries = 0
    /\ lockOrder = <<>>
    /\ raceCtx = "live"
    /\ raceCtxAtReturn = "live"
    /\ twin = InitTwin
    /\ WaitIdle

\* the shared context ends while the race runs: the caller cancels it or the
\* deadline of context.WithTimeout(ctx, timeout) passes
RaceCtxDone ==
    /\ cpc # "done"
    /\ raceCtx = "live"
    /\ raceCtx' = "done"
    /\ UNCHANGED raceCtxAtReturn
    /\ UNCHANGED <<possibleStates, sl, launched, wpc, watchErr, mutex,
                   successfulState, waitErr, numCompleted, cpc, ret, logged, queries,
                   lockOrder, twin>>
    /\ UNCHANGED waitVars

\* for _, state := range possibleStates { go func() {...}() }
Spawn ==
    /\ cpc = "spawn"
    /\ launched < N
    /\ launched' = launched + 1
    /\ wpc' = [wpc EXCEPT ![launched + 1] = "call"]
    /\ UNCHANGED <<raceCtx, raceCtxAtReturn>>
    /\ UNCHANGED <<possibleStates, sl, watchErr, mutex, successfulState, waitErr,
                   numCompleted, cpc, ret, logged, queries, lockOrder, twin>>
    /\ UNCHANGED waitVars

\* the range loop ends; the coordinator enters its for loop
SpawnDone ==
    /\ cpc = "spawn"
    /\ launched = N
    /\ cpc' = "lock"
    /\ UNCHANGED <<raceCtx, raceCtxAtReturn>>
    /\ UNCHANGED <<possibleStates, sl, launched, wpc, watchErr, mutex,
                   successfulState, waitErr, numCompleted, ret, logged, queries,
                   lockOrder, twin>>
    /\ UNCHANGED waitVars

\* the goroutine calls flapsClient.Wait(ctx, mach, state, timeout)
WatcherCall(i) ==
    /\ wpc[i] = "call"
    /\ wpc' = [wpc EXCEPT ![i] = "wait"]
    /\ queries' = queries + 1
    /\ UNCHANGED <<raceCtx, raceCtxAtReturn>>
    /\ UNCHANGED <<possibleStates, sl, launched, watchErr, mutex, successfulState,
                   waitErr, numCompleted, cpc, ret, logged, lockOrder, twin>>
    /\ UNCHANGED waitVars

\* WatcherWaitReturn calling flapsClient.Wait again after an error.
WatcherWaitReturnRetries(i, e) ==
    /\ wpc[i] = "wait"
    /\ wpc' = [wpc EXCEPT ![i] = IF e # Nil THEN "call" ELSE "lock"]
    /\ watchErr' = [watchErr EXCEPT ![i] = e]
    /\ UNCHANGED <<raceCtx, raceCtxAtReturn>>
    /\ UNCHANGED <<possibleStates, sl, launched, mutex, successfulState, waitErr,
                   numCompleted, cpc, ret, logged, queries, lockOrder, twin>>
    /\ UNCHANGED waitVars

\* flapsClient.Wait returns e (Nil: the machine reached the state)
WatcherWaitReturn(i, e) ==
    /\ wpc[i] = "wait"
    /\ wpc' = [wpc EXCEPT ![i] = "lock"]
    /\ watchErr' = [watchErr EXCEPT ![i] = e]
    /\ UNCHANGED <<raceCtx, raceCtxAtReturn>>
    /\ UNCHANGED <<possibleStates, sl, launched, mutex, successfulState, waitErr,
                   numCompleted, cpc, ret, logged, queries, lockOrder, twin>>
    /\ UNCHANGED waitVars

\* mutex.Lock() in the goroutine
WatcherLock(i) ==
    /\ wpc[i] = "lock"
    /\ mutex = Free
    /\ mutex' = i
    /\ wpc' = [wpc EXCEPT ![i] = "body"]
    /\ lockOrder' = Append(lockOrder, i)
    /\ UNCHANGED <<raceCtx, raceCtxAtReturn>>
    /\ UNCHANGED <<possibleStates, sl, launched, watchErr, successfulState, waitErr,
                   numCompleted, cpc, ret, logged, queries, twin>>
    /\ UNCHANGED waitVars

\* the guarded part of the goroutine, lines 101-113
WatcherBody(i) ==
    /\ wpc[i] = "body"
    /\ mutex = i
    /\ LET u == WatcherUpdate(successfulState, waitErr, logged,
                              possibleStates[i], watchErr[i], sl)
           t == WatcherUpdate(twin.successfulState, twin.waitErr, <<>>,
                              possibleStates[i], watchErr[i], ~sl)
       IN /\ successfulState' = u.successfulState
          /\ waitErr' = u.waitErr
          /\ logged' = u.logged
          /\ twin' = [twin EXCEPT !.successfulState = t.successfulState,
                                  !.waitErr = t.waitErr]
    /\ wpc' = [wpc EXCEPT ![i] = "defer"]
    /\ UNCHANGED <<raceCtx, raceCtxAtReturn>>
    /\ UNCHANGED <<possibleStates, sl, launched, watchErr, mutex, numCompleted,
                   cpc, ret, queries, lockOrder>>
    /\ UNCHANGED waitVars

\* WatcherDefer with the increment skipped on the early return (the count kept
\* at the end of the function body instead of in the deferred function).
WatcherDeferSkipsEarlyReturn(i) ==
    /\ wpc[i] = "defer"
    /\ mutex = i
    /\ numCompleted' = IF successfulState # "" /\ watchErr[i] # Nil
                       THEN numCompleted ELSE numCompleted + 1
    /\ twin' = [twin EXCEPT !.numCompleted = numCompleted']
    /\ mutex' = Free
    /\ wpc' = [wpc EXCEPT ![i] = "done"]
    /\ UNCHANGED <<raceCtx, raceCtxAtReturn>>
    /\ UNCHANGED <<possibleStates, sl, launched, watchErr, successfulState, waitErr,
                   cpc, ret, logged, queries, lockOrder>>
    /\ UNCHANGED waitVars

\* WatcherDefer without the Unlock.
WatcherDeferKeepsMutex(i) ==
    /\ wpc[i] = "defer"
    /\ mutex = i
    /\ numCompleted' = numCompleted + 1
    /\ twin' = [twin EXCEPT !.numCompleted = @ + 1]
    /\ wpc' = [wpc EXCEPT ![i] = "done"]
    /\ UNCHANGED <<mutex, raceCtx, raceCtxAtReturn>>
    /\ UNCHANGED <<possibleStates, sl, launched, watchErr, successfulState, waitErr,
                   cpc, ret, logged, queries, lockOrder>>
    /\ UNCHANGED waitVars

\* the deferred function: numCompleted += 1; mutex.Unlock()
WatcherDefer(i) ==
    /\ wpc[i] = "defer"
    /\ mutex = i
    /\ numCompleted' = numCompleted + 1
    /\ twin' = [twin EXCEPT !.numCompleted = @ + 1]
    /\ mutex' = Free
    /\ wpc' = [wpc EXCEPT ![i] = "done"]
    /\ UNCHANGED <<raceCtx, raceCtxAtReturn>>
    /\ UNCHANGED <<possibleStates, sl, launched, watchErr, successfulState, waitErr,
                   cpc, ret, logged, queries, lockOrder>>
    /\ UNCHANGED waitVars

\* mutex.Lock() in the coordinator's loop
CoordLock ==
    /\ cpc = "lock"
    /\ mutex = Free
    /\ mutex' = Coordinator
    /\ cpc' = "check"
    /\ UNCHANGED <<raceCtx, raceCtxAtReturn>>
    /\ UNCHANGED <<possibleStates, sl, launched, wpc, watchErr, successfulState,
                   waitErr, numCompleted, ret, logged, queries, lockOrder, twin>>
    /\ UNCHANGED waitVars

\* the value the coordinator returns, line 130
CoordResult(ss, we) == [returned |-> TRUE, state |-> ss, err |-> we]

\* the loop condition holds: return successfulState, waitErr; the deferred
\* mutex.Unlock() and cancel() run
CoordReturn ==
    /\ cpc = "check"
    /\ mutex = Coordinator
    /\ CoordReady(successfulState, numCompleted)
    /\ ret' = CoordResult(successfulState, waitErr)
    /\ twin' = [twin EXCEPT !.ret =
                  IF CoordReady(twin.successfulState, twin.numCompleted)
                  THEN CoordResult(twin.successfulState, twin.waitErr)
                  ELSE NoRet]
    /\ mutex' = Free
    /\ cpc' = "done"
    /\ raceCtxAtReturn' = raceCtx
    /\ raceCtx' = "done"
    /\ UNCHANGED <<possibleStates, sl, launched, wpc, watchErr, successfulState,
                   waitErr, numCompleted, logged, queries, lockOrder>>
    /\ UNCHANGED waitVars

\* the loop condition fails: mutex.Unlock(), then time.Sleep(1 * time.Second)
CoordUnlock ==
    /\ cpc = "check"
    /\ mutex = Coordinator
    /\ ~CoordReady(successfulState, numCompleted)
    /\ mutex' = Free
    /\ cpc' = "sleep"
    /\ UNCHANGED <<raceCtx, raceCtxAtReturn>>
    /\ UNCHANGED <<possibleStates, sl, launched, wpc, watchErr, successfulState,
                   waitErr, numCompleted, ret, logged, queries, lockOrder, twin>>
    /\ UNCHANGED waitVars

\* time.Sleep returns
CoordWake ==
    /\ cpc = "sleep"
    /\ cpc' = "lock"
    /\ UNCHANGED <<raceCtx, raceCtxAtReturn>>
    /\ UNCHANGED <<possibleStates, sl, launched, wpc, watchErr, mutex,
                   successfulState, waitErr, numCompleted, ret, logged, queries,
                   lockOrder, twin>>
    /\ UNCHANGED waitVars

NextAny ==
    \/ RaceCtxDone
    \/ Spawn
    \/ SpawnDone
    \/ \E i \in Watchers : WatcherCall(i)
    \/ \E i \in Watchers : \E e \in WatchErrs \cup {Nil} : WatcherWaitReturn(i, e)
    \/ \E i \in Watchers : WatcherLock(i)
    \/ \E i \in Watchers : WatcherBody(i)
    \/ \E i \in Watchers : WatcherDefer(i)
    \/ CoordLock
    \/ CoordReturn
    \/ CoordUnlock
    \/ CoordWake

SpecAny == InitAny /\ [][NextAny]_vars

\* a step of the coordinator (at most one is enabled at a time)
CoordStep ==
    \/ Spawn
    \/ SpawnDone
    \/ CoordLock
    \/ CoordReturn
    \/ CoordUnlock
    \/ CoordWake

\* a step of watcher i other than the return of its flapsClient.Wait
WatcherProgress(i) ==
    \/ WatcherCall(i)
    \/ WatcherLock(i)
    \/ WatcherBody(i)
    \/ WatcherDefer(i)

\* Scheduling: the coordinator and every goroutine that is not blocked in
\* flapsClient.Wait or on the mutex keeps running; flapsClient.Wait itself may
\* block for ever. A goroutine waiting in mutex.Lock gets the mutex if it is
\* free again and again (sync.Mutex hands a starving waiter the lock, and the
\* coordinator sleeps a second between polls).
AnyFairness ==
    /\ WF_vars(CoordStep)
    /\ \A i \in 1..MaxWatchers : WF_vars(i \in Watchers /\ WatcherProgress(i))
    /\ SF_vars(\E i \in Watchers : WatcherLock(i))

LiveAny == InitAny /\ [][NextAny]_vars /\ AnyFairness

\* flapsClient.Wait of watcher i returns an error because the shared context is
\* done (the service honours the cancellation)
WatcherWaitUnblocked(i) ==
    /\ raceCtx = "done"
    /\ \E e \in WatchErrs : WatcherWaitReturn(i, e)

\* Scheduling as in AnyFairness; moreover the shared context ends (its deadline
\* passes at the latest) and every query then returns.
HonouredFairness ==
    /\ AnyFairness
    /\ WF_vars(RaceCtxDone)
    /\ \A i \in 1..MaxWatchers : WF_vars(i \in Watchers /\ WatcherWaitUnblocked(i))

LiveAnyHonoured == InitAny /\ [][NextAny]_vars /\ HonouredFairness

\* the race's variables while only the retry loop runs
AnyIdle ==
    /\ possibleStates = <<>>
    /\ sl = FALSE
    /\ launched = 0
    /\ wpc = <<>>
    /\ watchErr = <<>>
    /\ mutex = Free
    /\ successfulState = ""
    /\ waitErr = Nil
    /\ numCompleted = 0
    /\ cpc = "spawn"
    /\ ret = NoRet
    /\ logged = <<>>
    /\ queries = 0
    /\ lockOrder = <<>>
    /\ raceCtx = "live"
    /\ raceCtxAtReturn = "live"
    /\ twin = InitTwin

InitWait ==
    /\ action \in Actions
    /\ machine \in [ID : MachineIDs, Restart : RestartPolicies]
    /\ timeout \in Timeouts
    /\ ctx = "live"
    /\ WaitStart
    /\ AnyIdle

SpecWait == InitWait /\ [][NextWait]_vars

LiveWait == InitWait /\ [][NextWait]_vars /\ WaitFairness

-----------------------------------------------------------------------------
(* Properties of WaitForAnyMachineState *)

\* watchers whose flapsClient.Wait has returned
Returned == {i \in Watchers : wpc[i] \in {"lock", "body", "defer", "done"}}

\* watchers that have run the guarded part of the goroutine
Recorded == {i \in Watchers : wpc[i] \in {"defer", "done"}}

\* positions in lockOrder of the succeeding watchers that have run the guarded part
SucceededAt ==
    {k \in 1..Len(lockOrder) :
        lockOrder[k] \in Recorded /\ watchErr[lockOrder[k]] = Nil}

\* the state of the first succeeding watcher to acquire the mutex, "" if none yet
FirstSucceeded ==
    IF SucceededAt = {} THEN ""
    ELSE possibleStates[lockOrder[CHOOSE k \in SucceededAt :
                                      \A j \in SucceededAt : k <= j]]

\* C1: whenever WaitForAnyMachineState returns a non-empty winning state, the
\* returned error is nil.
C1_WinnerReturnedWithNilError ==
    (ret.returned /\ ret.state # "") => ret.err = Nil

\* C2: over a non-empty candidate list, when no watcher's query has succeeded
\* the coordinator returns only after every watcher failed and completed, and
\* then returns the empty state with a non-nil error.
C2_AllFailReturnsError ==
    (/\ ret.returned
     /\ N >= 1
     /\ \A i \in Returned : watchErr[i] # Nil)
    => /\ ret.state = ""
       /\ ret.err # Nil
       /\ \A i \in Watchers : wpc[i] = "done"

C2_Witness ==
    /\ ret.returned
    /\ N = 2
    /\ \A i \in Watchers : wpc[i] = "done" /\ watchErr[i] # Nil
    /\ watchErr[1] # watchErr[2]
    /\ ret.state = ""
    /\ ret.err # Nil

\* C3: the winner is written at most once: once successfulState is set, no
\* step changes it or waitErr; successfulState is always the state of the first
\* succeeding watcher to acquire the mutex, and so is a returned winner.
C3_WinnerWrittenOnce ==
    /\ [][successfulState # ""
            => (successfulState' = successfulState /\ waitErr' = waitErr)]_vars
    /\ [](successfulState = FirstSucceeded)
    /\ []((ret.returned /\ ret.state # "") => ret.state = FirstSucceeded)

C3_Witness ==
    /\ ret.returned
    /\ N = 2
    /\ possibleStates[1] # possibleStates[2]
    /\ \A i \in Watchers : wpc[i] = "done" /\ watchErr[i] = Nil
    /\ lockOrder = <<2, 1>>
    /\ successfulState = possibleStates[2]
    /\ ret.state = possibleStates[2]

\* C9: once a watcher has recorded its state as winner, the coordinator
\* eventually returns, even if every other watcher stays blocked in its query.
C9_WinnerLeadsToReturn ==
    (successfulState # "") ~> ret.returned

\* a return while the other watcher is still blocked in flapsClient.Wait
C9_Witness ==
    /\ ret.returned
    /\ possibleStates = <<"started", "stopped">>
    /\ wpc[1] = "wait"
    /\ wpc[2] = "done"
    /\ numCompleted < N
    /\ ret.state = "stopped"
    /\ ret.err = Nil

\* C10: the shared fields and the returned pair are those of the same run with
\* the reporter flipped (supplied instead of omitted, or the reverse).
C10_ReporterDoesNotChangeOutcome ==
    /\ twin.successfulState = successfulState
    /\ twin.waitErr = waitErr
    /\ twin.numCompleted = numCompleted
    /\ twin.ret = ret

C10_Witness ==
    /\ sl
    /\ N = 2
    /\ \A i \in Watchers : wpc[i] = "done"
    /\ Len(logged) = 1
    /\ ret.returned
    /\ ret.state = logged[1]
    /\ twin.ret = ret

\* C11: the coordinator never returns while no winner is recorded and fewer
\* than N watchers have completed, whether or not the shared context is done.
C11_NoReturnBeforeWinnerOrAll ==
    ret.returned => (ret.state # "" \/ numCompleted = N)

\* a return after the deadline, which had to wait for both watchers
C11_Witness ==
    /\ ret.returned
    /\ raceCtxAtReturn = "done"
    /\ N = 2
    /\ ret.state = ""
    /\ numCompleted = 2

\* C12: a return with no winner carries the error of the failing watcher that
\* acquired the mutex last.
C12_LastErrorReturned ==
    (ret.returned /\ ret.state = "" /\ N >= 1)
    => /\ Len(lockOrder) = N
       /\ ret.err = watchErr[lockOrder[N]]

C12_Witness ==
    /\ ret.returned
    /\ ret.state = ""
    /\ N = 2
    /\ lockOrder = <<2, 1>>
    /\ watchErr[1] # watchErr[2]
    /\ ret.err = watchErr[1]

\* the mutex is held exactly by the goroutine inside its critical section
MutexHeldInCriticalSection ==
    /\ (mutex = Coordinator) <=> (cpc = "check")
    /\ \A i \in Watchers : (mutex = i) <=> (wpc[i] \in {"body", "defer"})

\* C13: when every query returns once the shared context is done, the
\* coordinator eventually returns and every watcher eventually finishes, so
\* that none of them waits for the mutex for ever; the mutex is held only
\* inside a critical section.
C13_RaceTerminates ==
    /\ []MutexHeldInCriticalSection
    /\ <>(ret.returned /\ \A i \in Watchers : wpc[i] = "done")

\* a return that had to wait for the context to end and both queries to fail
C13_Witness ==
    /\ ret.returned
    /\ raceCtxAtReturn = "done"
    /\ N = 2
    /\ lockOrder = <<1, 2>>
    /\ \A i \in Watchers : wpc[i] = "done" /\ watchErr[i].text = "deadline"
    /\ ret.state = ""
    /\ ret.err.text = "deadline"

\* watchers that have called flapsClient.Wait
Queried == {i \in Watchers : wpc[i] \notin {"unborn", "call"}}

\* C16: each watcher issues exactly one query and never retries: the number of
\* queries is the number of watchers that have called flapsClient.Wait, N once
\* all have (duplicates counted); a watcher whose query returned keeps its
\* result and never calls again; a failing watcher stores its error in waitErr
\* (unless a winner is already recorded) and completes.
C16_OneQueryPerWatcher ==
    /\ [](queries = Cardinality(Queried))
    /\ []((\A i \in Watchers : wpc[i] = "done") => queries = N)
    /\ [][\A i \in Watchers :
            wpc[i] \in {"lock", "body", "defer", "done"}
            => /\ wpc'[i] \in {"lock", "body", "defer", "done"}
               /\ watchErr'[i] = watchErr[i]]_vars
    /\ [][\A i \in Watchers :
            (wpc[i] = "body" /\ wpc'[i] # "body" /\ watchErr[i] # Nil)
            => /\ wpc'[i] = "defer"
               /\ successfulState = "" => waitErr' = watchErr[i]]_vars
    /\ [][\A i \in Watchers :
            (wpc[i] = "defer" /\ wpc'[i] # "defer")
            => (wpc'[i] = "done" /\ numCompleted' = numCompleted + 1)]_vars

\* two watchers for the same state, both failing: two queries, one each
C16_Witness ==
    /\ possibleStates = <<"started", "started">>
    /\ \A i \in Watchers : wpc[i] = "done" /\ watchErr[i] # Nil
    /\ queries = 2
    /\ numCompleted = 2
    /\ waitErr = watchErr[lockOrder[2]]

\* watchers that have acquired the mutex
Locked == {i \in Watchers : wpc[i] \in {"body", "defer", "done"}}

\* C17: every watcher acquires the mutex exactly once, after its query
\* returned, and numCompleted is incremented once per watcher, by the watcher
\* holding the mutex, on the early-return path too: numCompleted is the number
\* of finished watchers and lies in 0..N.
C17_CompletedCountExact ==
    /\ [](numCompleted = Cardinality({i \in Watchers : wpc[i] = "done"}))
    /\ [](numCompleted \in 0..N)
    /\ [](/\ Len(lockOrder) = Cardinality(Locked)
          /\ {lockOrder[k] : k \in 1..Len(lockOrder)} = Locked)
    /\ [][lockOrder' # lockOrder
            => \E i \in Watchers : /\ wpc[i] = "lock"
                                   /\ mutex = Free
                                   /\ mutex' = i
                                   /\ lockOrder' = Append(lockOrder, i)]_vars
    /\ [][numCompleted' # numCompleted
            => /\ mutex \in Watchers
               /\ wpc[mutex] = "defer"
               /\ wpc'[mutex] = "done"
               /\ numCompleted' = numCompleted + 1]_vars

\* the second watcher fails after the winner is recorded, takes the early
\* return, and is counted
C17_Witness ==
    /\ N = 2
    /\ lockOrder = <<1, 2>>
    /\ watchErr[1] = Nil
    /\ watchErr[2] # Nil
    /\ waitErr = Nil
    /\ \A i \in Watchers : wpc[i] = "done"
    /\ numCompleted = 2

\* C18: no priority among candidates: when the first watcher to acquire the
\* mutex has succeeded, a returned winner is its state, wherever that state
\* stands in the candidate list and whatever the other watchers report.
C18_NoPriority ==
    (/\ ret.returned
     /\ ret.state # ""
     /\ Len(lockOrder) >= 1
     /\ lockOrder[1] \in Recorded
     /\ watchErr[lockOrder[1]] = Nil)
    => ret.state = possibleStates[lockOrder[1]]

\* both watchers succeed; the state listed last wins because its watcher took
\* the mutex first
C18_Witness ==
    /\ possibleStates = <<"started", "stopped">>
    /\ watchErr[1] = Nil
    /\ watchErr[2] = Nil
    /\ lockOrder = <<2, 1>>
    /\ wpc[1] = "defer"
    /\ wpc[2] = "done"
    /\ ret.returned
    /\ ret.state = "stopped"

\* both watchers succeed; the state listed first wins
C18_WitnessFirstListed ==
    /\ possibleStates = <<"started", "stopped">>
    /\ watchErr[1] = Nil
    /\ watchErr[2] = Nil
    /\ lockOrder = <<1, 2>>
    /\ ret.returned
    /\ ret.state = "started"

\* watchers whose query succeeded and that have acquired the mutex
LockedSucceeded == {i \in Locked : watchErr[i] = Nil}

\* C19: with a reporter supplied, "reached <state>" is logged only for watchers
\* whose query returned success: every logged state is the state of such a
\* watcher, and there are no more messages than such watchers.
C19_LoggedOnlyOnSuccess ==
    sl => /\ \A k \in 1..Len(logged) :
               \E i \in LockedSucceeded : possibleStates[i] = logged[k]
          /\ Len(logged) <= Cardinality(LockedSucceeded)

\* no watcher exists, no query was issued, nothing was logged or recorded
NothingLaunched ==
    /\ launched = 0
    /\ queries = 0
    /\ logged = <<>>
    /\ lockOrder = <<>>
    /\ numCompleted = 0

\* C21: with an empty candidate list no watcher is launched and no query is
\* issued, the coordinator never sleeps (its first check succeeds, 0 = 0), and
\* it returns ("", nil).
C21_EmptyListReturnsAtOnce ==
    /\ [](N = 0 => /\ NothingLaunched
                   /\ cpc # "sleep"
                   /\ ret.returned => (ret.state = "" /\ ret.err = Nil))
    /\ (N = 0) ~> ret.returned

C21_Witness ==
    /\ N = 0
    /\ ret.returned
    /\ ret.state = ""
    /\ ret.err = Nil
    /\ raceCtxAtReturn = "live"
    /\ NothingLaunched

-----------------------------------------------------------------------------
(* Properties of WaitForStartOrStop *)

\* the call has returned
Done == fpc = "done"

\* the error is one the default branch returns instead of retrying
NonRetryable(e) ==
    \/ e.text = "reach" /\ machine.Restart = "no"
    \/ e.code = 400

\* C4: an action other than "start" or "stop" returns invalidAction with no
\* flapsClient.Wait call and no sleep; "start" waits on "started" and "stop" on
\* "stopped".
C4_InvalidActionNoCall ==
    /\ action \notin {"start", "stop"}
         => /\ calls = 0
            /\ slept = <<>>
            /\ Done => result.kind = "invalidAction"
    /\ (action = "start" /\ calls > 0) => waitOnAction = "started"
    /\ (action = "stop" /\ calls > 0) => waitOnAction = "stopped"
    /\ (action \in {"start", "stop"} /\ Done) => result.kind # "invalidAction"

C4_Witness ==
    /\ Done
    /\ action = "restart"
    /\ result.kind = "invalidAction"
    /\ calls = 0

\* C5: with the overall context never canceled nor expired, transient errors
\* never end the call: each failed attempt is followed by exactly one sleep, and
\* a success on attempt K+1 returns nil after K sleeps, without a further sleep.
C5_TransientRetriedThenSuccess ==
    /\ (Done /\ result.kind = "nil") => (err = Nil /\ Len(slept) = calls - 1)
    /\ (Done /\ err = Nil /\ calls > 0) => result.kind = "nil"
    /\ (Done /\ ctx = "live" /\ err # Nil) => NonRetryable(err)
    /\ (ctx = "live" /\ calls > 0 /\ ~Done)
         => Len(slept) = (IF fpc \in {"sleep", "call"} THEN calls ELSE calls - 1)

C5_Witness ==
    /\ Done
    /\ ctx = "live"
    /\ result.kind = "nil"
    /\ calls = 4
    /\ Len(slept) = 3

\* C6: WaitTimeoutErr is returned only once the overall context has expired and
\* carries the machine id, the configured timeout and the desired state; an
\* error returned after the expiry yields it; a "deadline exceeded" error
\* returned while the context is live is retried; after the context is done at
\* most one sleep returns and at most one further query is issued.
C6_TimedOutOnceExpired ==
    /\ result.kind = "WaitTimeoutErr"
         => /\ ctx = "expired"
            /\ result.machineID = machine.ID
            /\ result.timeout = timeout
            /\ result.desiredState = (IF action = "start" THEN "started" ELSE "stopped")
    /\ (Done /\ err # Nil /\ ctxAtReturn = "expired") => result.kind = "WaitTimeoutErr"
    /\ (Done /\ ctx = "live") => err # [text |-> "deadline", code |-> 0]
    /\ lateCalls <= 1
    /\ lateWakes <= 1

C6_Witness ==
    /\ Done
    /\ result.kind = "WaitTimeoutErr"
    /\ err = [text |-> "deadline", code |-> 0]
    /\ calls = 3
    /\ Len(slept) = 2
    /\ lateCalls = 1
    /\ lateWakes = 1

\* C7: with the overall context live, a restart-policy failure or an HTTP 400
\* ends the call right after that attempt: no sleep and no query follow it, and
\* the call returns the restart-policy error, or else the 400 wrapped.
C7_NonRetryableImmediate ==
    (ctx = "live" /\ err # Nil /\ NonRetryable(err))
    => /\ fpc \in {"isCanceled", "isExpired", "default", "done"}
       /\ calls = callsAtReturn
       /\ Len(slept) = sleptAtReturn
       /\ Len(slept) = calls - 1
       /\ Done => /\ result.kind =
                       (IF err.text = "reach" /\ machine.Restart = "no"
                        THEN "restartPolicy" ELSE "wrapped")
                  /\ result.kind = "restartPolicy" => result.policy = "no"
                  /\ result.kind = "wrapped" => result.err = err

C7_Witness ==
    /\ Done
    /\ ctx = "live"
    /\ err = [text |-> "reach", code |-> 0]
    /\ machine.Restart = "no"
    /\ result.kind = "restartPolicy"
    /\ calls = 1
    /\ slept = <<>>

\* C8: when the context is canceled by the time the query returns an error,
\* the call returns that very error, whatever the error is, and no query and
\* no sleep follow it.
C8_CanceledReturnsRawError ==
    (err # Nil /\ ctxAtReturn = "canceled")
    => /\ fpc \in {"isCanceled", "done"}
       /\ calls = callsAtReturn
       /\ Len(slept) = sleptAtReturn
       /\ Done => (result.kind = "raw" /\ result.err = err)

C8_Witness ==
    /\ Done
    /\ ctxAtReturn = "canceled"
    /\ err = [text |-> "reach", code |-> 400]
    /\ machine.Restart = "no"
    /\ result.kind = "raw"
    /\ result.err = err
    /\ calls = 2

\* the kinds of result the retry loop returns
LoopExits == {"nil", "raw", "WaitTimeoutErr", "restartPolicy", "wrapped"}

\* C14: WaitForStartOrStop eventually returns, and does so once its context is
\* canceled or expired, whatever errors the queries produced; a valid action
\* leaves the loop only with nil, the raw error (canceled), WaitTimeoutErr, or
\* a non-retryable error.
C14_WaitTerminates ==
    /\ <>Done
    /\ (ctx # "live") ~> Done
    /\ []((Done /\ action \in {"start", "stop"}) => result.kind \in LoopExits)
    /\ []((Done /\ result.kind = "raw") => ctx = "canceled")
    /\ []((Done /\ result.kind \in {"restartPolicy", "wrapped"}) => NonRetryable(err))

\* three transient errors, then the caller cancels and the call returns
C14_Witness ==
    /\ Done
    /\ ctx = "canceled"
    /\ result.kind = "raw"
    /\ calls = 4
    /\ Len(slept) = 3
    /\ lateCalls = 1
    /\ ~NonRetryable(err)

\* C15: the i-th sleep of a call lasts min(500ms * 2^(i-1), 2s): 500, 1000,
\* 2000, 2000, ... ms; the backoff's attempt counter starts at 0 in each call
\* and counts the sleeps of that call, never reset.
C15_BackoffSchedule ==
    /\ b = Len(slept)
    /\ \A i \in 1..Len(slept) :
          /\ slept[i] = (IF i = 1 THEN 500 ELSE IF i = 2 THEN 1000 ELSE 2000)
          /\ slept[i] >= 500
          /\ slept[i] <= 2000
          /\ i > 1 => slept[i - 1] <= slept[i]

C15_Witness ==
    /\ slept = <<500, 1000, 2000, 2000>>
    /\ b = 4
    /\ fpc = "wait"
    /\ calls = 5

\* C20: the context decides before the error does. When the context was
\* canceled as the failing query returned, the result is the raw error; when it
\* was expired, WaitTimeoutErr, also for a restart-policy failure or a 400; a
\* non-retryable result or a retry follows only a query that returned with the
\* context live; a query that returns nil yields nil whatever the context.
C20_ContextDecidesFirst ==
    /\ (Done /\ err # Nil /\ ctxAtReturn = "canceled")
         => (result.kind = "raw" /\ result.err = err)
    /\ (Done /\ err # Nil /\ ctxAtReturn = "expired")
         => result.kind = "WaitTimeoutErr"
    /\ (Done /\ result.kind \in {"restartPolicy", "wrapped"})
         => ctxAtReturn = "live"
    /\ (fpc \in {"default", "sleep"} \/ (fpc \in {"call", "wait"} /\ Len(slept) > 0))
         => ctxAtReturn = "live"
    /\ (Done /\ err = Nil /\ calls > 0) => result.kind = "nil"

\* a 400 that is also a restart-policy failure, returned after the deadline
C20_Witness ==
    /\ Done
    /\ ctxAtReturn = "expired"
    /\ err = [text |-> "reach", code |-> 400]
    /\ machine.Restart = "no"
    /\ result.kind = "WaitTimeoutErr"
    /\ calls = 1

\* a query that succeeds after the deadline
C20_WitnessLateSuccess ==
    /\ Done
    /\ ctxAtReturn = "expired"
    /\ result.kind = "nil"
    /\ lateCalls = 1

====
